---- MODULE Spec2Model ----
(***************************************************************************)
(* Model of shogun/taxonomy/ncbi_tree.py: class NCBITree.                  *)
(*                                                                         *)
(* Construction (__init__ -> _parse_ncbi_taxonomy) reads names.dmp and     *)
(* nodes.dmp row by row, then fills a networkx DiGraph; afterwards the six *)
(* query methods read the graph and the two name dictionaries.             *)
(*                                                                         *)
(* The code is written against the networkx 1.x API (successors() returns  *)
(* a list, nx.set_node_attributes(G, name, values), G.node[x]).  In that   *)
(* API set_node_attributes executes G.node[n][name] = value for every key  *)
(* of values, which raises KeyError for a key that is not a node of G.     *)
(* The order of G.successors(n) is the iteration order of a dict, which    *)
(* the language version fixes or leaves to the hash seed: it is modelled   *)
(* as an arbitrary order chosen when the graph is filled and kept after.   *)
(* self.save() (PickleClass) is outside the modelled source.               *)
(***************************************************************************)
EXTENDS Integers, Sequences, FiniteSets, TLC

(* ---------------------------- bounds ----------------------------------- *)
MaxNamesRows == 2
MaxNodesRows == 2
MaxWalk == 4

(* ---------------------------- input alphabet --------------------------- *)
TaxonIds == {"9606", "9605", "9604"}
NameIds == {"9606", "9605"}
Names == {"Homo sapiens", "Homo"}
ScientificName == "scientific name"
NameClasses == {ScientificName, "synonym"}
Ranks == {"species", "genus"}
None == "None"
Bar == "|"

\* a names.dmp line "id\t|\tname\t|\tunique\t|\tclass\t|" split on tabs
NamesRow(taxon_id, name, class) ==
    <<taxon_id, Bar, name, Bar, "", Bar, class, Bar>>

\* one display name shared by two ids, in both classes
WellFormedNamesRows ==
    {NamesRow(i, "Homo sapiens", c) : i \in NameIds, c \in NameClasses}

\* rows that do not have the shape of a names.dmp line: too short to be
\* indexed, and long enough to be indexed but without a class column
MalformedNamesRows ==
    { <<"9606", Bar>>,
      <<"9605", ScientificName, "Homo">> }

NamesRows == WellFormedNamesRows \cup MalformedNamesRows

\* the columns of a nodes.dmp line after the rank column (never read)
NodesTail == <<"", Bar>>

\* a nodes.dmp line "child\t|\tparent\t|\trank\t|\t..." split on tabs
NodesRow(child, parent, rank) ==
    <<child, Bar, parent, Bar, rank, Bar>> \o NodesTail

\* a species under its genus, the genus as self-loop root, and the rows that
\* close a cycle, give a second parent, or hang the genus under an id that
\* has no row of its own
WellFormedNodesRows ==
    { NodesRow("9606", "9605", "species"),
      NodesRow("9605", "9605", "genus"),
      NodesRow("9605", "9606", "species"),
      NodesRow("9606", "9604", "species"),
      NodesRow("9605", "9604", "genus") }

\* rows that do not have the shape of a nodes.dmp line: empty, and too
\* short to hold a rank
MalformedNodesRows ==
    { <<>>,
      <<"9606", Bar, "9605", Bar>> }

NodesRows == WellFormedNodesRows \cup MalformedNodesRows

(* ---------------------------- state ------------------------------------ *)
VARIABLES
    pc,             \* "names" | "nodes" | "built" | "walk" | "failed"
    error,          \* exception that left __init__, or "none"
    names_dmp,      \* rows of names.dmp consumed so far
    nodes_dmp,      \* rows of nodes.dmp consumed so far
    name2taxon_id,  \* self.name2taxon_id
    taxon_id2name,  \* self.taxon_id2name
    edges,          \* local list edges
    nodes,          \* local dict nodes: child -> rank
    tree_succ,      \* self.tree: node -> list returned by successors(node)
    tree_rank,      \* self.tree.node[x]['rank'] where the attribute is set
    op,             \* query method in progress / last returned, or "none"
    q_name,         \* its name argument
    q_taxon_id,     \* its taxon_id argument
    q_rank,         \* its rank argument
    path,           \* local list path of the lineage walk
    current_node,   \* local current_node of the lineage walk
    result          \* what the last query returned or raised

hierarchy == <<name2taxon_id, taxon_id2name, tree_succ, tree_rank>>
builder == <<names_dmp, nodes_dmp, edges, nodes>>
query == <<op, q_name, q_taxon_id, q_rank, path, current_node, result>>
vars == <<pc, error, names_dmp, nodes_dmp, name2taxon_id, taxon_id2name,
          edges, nodes, tree_succ, tree_rank, op, q_name, q_taxon_id,
          q_rank, path, current_node, result>>

(* ---------------------------- helpers ---------------------------------- *)
EmptyDict == [k \in {} |-> ""]

\* d[k] = v on a Python dict
Put(d, k, v) == [x \in DOMAIN d \cup {k} |-> IF x = k THEN v ELSE d[x]]

\* cols[-2]
ColMinus2(cols) == cols[Len(cols) - 1]

Returned(value) == [status |-> "ok", value |-> value]
Raised(exc) == [status |-> exc, value |-> <<>>]
NoResult == [status |-> "none", value |-> <<>>]

TreeNodes == DOMAIN tree_succ

Init ==
    /\ pc = "names"
    /\ error = "none"
    /\ names_dmp = <<>>
    /\ nodes_dmp = <<>>
    /\ name2taxon_id = EmptyDict
    /\ taxon_id2name = EmptyDict
    /\ edges = <<>>
    /\ nodes = EmptyDict
    /\ tree_succ = EmptyDict
    /\ tree_rank = EmptyDict
    /\ op = "none"
    /\ q_name = ""
    /\ q_taxon_id = ""
    /\ q_rank = ""
    /\ path = <<>>
    /\ current_node = ""
    /\ result = NoResult

(* ---------------------------- construction ----------------------------- *)
\* faulty variant: a name that is already indexed keeps its first id
NameIndexAfter_FirstWins(d, cols) ==
    IF cols[3] \in DOMAIN d THEN d ELSE Put(d, cols[3], cols[1])

\* lines 49-51: the two dictionary writes of one names row
NameIndexAfter(d, cols) == Put(d, cols[3], cols[1])

CanonicalAfter(d, cols) ==
    IF ColMinus2(cols) = ScientificName THEN Put(d, cols[1], cols[3]) ELSE d

\* one iteration of the names loop; cols[2] on a short row raises IndexError
ReadNamesRow ==
    /\ pc = "names"
    /\ Len(names_dmp) < MaxNamesRows
    /\ \E cols \in NamesRows :
        /\ names_dmp' = Append(names_dmp, cols)
        /\ IF Len(cols) < 3
           THEN /\ pc' = "failed"
                /\ error' = "IndexError"
                /\ UNCHANGED <<name2taxon_id, taxon_id2name>>
           ELSE /\ name2taxon_id' = NameIndexAfter(name2taxon_id, cols)
                /\ taxon_id2name' = CanonicalAfter(taxon_id2name, cols)
                /\ UNCHANGED <<pc, error>>
    /\ UNCHANGED <<nodes_dmp, edges, nodes, tree_succ, tree_rank>>
    /\ UNCHANGED query

\* names.dmp is exhausted; nodes.dmp is opened
EndOfNames ==
    /\ pc = "names"
    /\ pc' = "nodes"
    /\ UNCHANGED <<error, hierarchy, builder, query>>

\* one iteration of the nodes loop; cols[4] on a short row raises IndexError
ReadNodesRow ==
    /\ pc = "nodes"
    /\ Len(nodes_dmp) < MaxNodesRows
    /\ \E cols \in NodesRows :
        /\ nodes_dmp' = Append(nodes_dmp, cols)
        /\ IF Len(cols) < 5
           THEN /\ pc' = "failed"
                /\ error' = "IndexError"
                /\ UNCHANGED <<edges, nodes>>
           ELSE /\ nodes' = Put(nodes, cols[1], cols[5])
                /\ edges' = IF cols[1] # cols[3]
                            THEN Append(edges, <<cols[1], cols[3]>>)
                            ELSE edges
                /\ UNCHANGED <<pc, error>>
    /\ UNCHANGED <<names_dmp, hierarchy>>
    /\ UNCHANGED query

\* nodes of the graph after add_edges_from(edges)
EdgeNodes(es) == {es[i][1] : i \in DOMAIN es} \cup {es[i][2] : i \in DOMAIN es}

\* distinct successors of n after add_edges_from(edges)
EdgeSucc(es, n) == {es[i][2] : i \in {j \in DOMAIN es : es[j][1] = n}}

\* the orders in which a dict with key set S can be iterated
Orders(S) ==
    {s \in [1..Cardinality(S) -> S] :
        \A i, j \in 1..Cardinality(S) : i # j => s[i] # s[j]}

RECURSIVE Adjacencies(_, _)
\* the adjacency structures add_edges_from(edges) can leave for node set S
Adjacencies(es, S) ==
    IF S = {} THEN {EmptyDict}
    ELSE LET n == CHOOSE x \in S : TRUE
         IN  {Put(g, n, o) : g \in Adjacencies(es, S \ {n}),
                             o \in Orders(EdgeSucc(es, n))}

\* nodes.dmp is exhausted: add_edges_from, then set_node_attributes, which
\* raises KeyError at the first key of nodes that is not a node of the graph
EndOfNodes ==
    /\ pc = "nodes"
    /\ \E adj \in Adjacencies(edges, EdgeNodes(edges)) :
        /\ tree_succ' = adj
        /\ IF DOMAIN nodes \subseteq DOMAIN adj
           THEN /\ tree_rank' = nodes
                /\ pc' = "built"
                /\ UNCHANGED error
           ELSE /\ \E done \in SUBSET (DOMAIN nodes \cap DOMAIN adj) :
                     tree_rank' = [n \in done |-> nodes[n]]
                /\ pc' = "failed"
                /\ error' = "KeyError"
    /\ UNCHANGED <<name2taxon_id, taxon_id2name, builder, query>>

(* ---------------------------- queries ---------------------------------- *)
LineageOps == {"get_taxon_id_lineage_with_taxon_id",
               "get_taxon_id_lineage_with_name"}
NameLineageOps == {"get_name_lineage_with_taxon_id",
                   "get_name_lineage_with_name"}
RankOps == {"get_rank_with_taxon_id", "get_name_at_rank"}
NameOps == {"get_taxon_id_lineage_with_name", "get_name_lineage_with_name",
            "get_name_at_rank"}

RECURSIVE WalkFrom(_)
\* the while loop of lines 74-76 run to its end from the list p
\* (defined only where that loop ends)
WalkFrom(p) ==
    LET c == p[Len(p)]
    IN  IF Len(tree_succ[c]) > 0
        THEN WalkFrom(Append(p, tree_succ[c][1]))
        ELSE p

\* value of get_taxon_id_lineage_with_taxon_id(taxon_id) as a nested call
Lineage(taxon_id) ==
    IF taxon_id \notin TreeNodes THEN <<>> ELSE WalkFrom(<<taxon_id>>)

\* lines 90-93: name = self.taxon_id2name[x], '' on KeyError
NameOf(x) == IF x \in DOMAIN taxon_id2name THEN taxon_id2name[x] ELSE ""

\* lines 87-95 over the lineage p: self.tree.node[x]['rank'] raises KeyError
\* for a node that carries no rank attribute
NameLineage(p) ==
    IF \E i \in DOMAIN p : p[i] \notin DOMAIN tree_rank
    THEN Raised("KeyError")
    ELSE Returned([i \in DOMAIN p |-> <<NameOf(p[i]), tree_rank[p[i]]>>])

\* lines 106-109: first position of zip(ids, names) whose rank equals rank
RankScan(ids, names, rank) ==
    LET n == IF Len(ids) < Len(names) THEN Len(ids) ELSE Len(names)
        hits == {i \in 1..n : names[i][2] = rank}
    IN  IF hits = {} THEN <<None, None>>
        ELSE LET k == CHOOSE i \in hits : \A j \in hits : i <= j
             IN  <<ids[k], names[k][1]>>

\* lines 104-109 once the walk of line 104 has returned ids
RankWith(ids, taxon_id, rank) ==
    LET nl == NameLineage(Lineage(taxon_id))
    IN  IF nl.status # "ok" THEN nl
        ELSE Returned(RankScan(ids, nl.value, rank))

\* what method o returns once its lineage walk has returned p
Finish(o, p, taxon_id, rank) ==
    IF o \in LineageOps THEN Returned(p)
    ELSE IF o \in NameLineageOps THEN NameLineage(p)
    ELSE RankWith(p, taxon_id, rank)

\* faulty variant: every name-indexed method returns [] on an unknown name
MissValue_AlwaysList(o) == <<>>

\* the value a method returns when its name argument is not in name2taxon_id
MissValue(o) == IF o \in RankOps THEN <<None, None>> ELSE <<>>

\* lines 70-73: entry of the lineage walk on behalf of method o
EnterWalk(o, name, taxon_id, rank) ==
    /\ op' = o
    /\ q_name' = name
    /\ q_taxon_id' = taxon_id
    /\ q_rank' = rank
    /\ IF taxon_id \in TreeNodes
       THEN /\ pc' = "walk"
            /\ path' = <<taxon_id>>
            /\ current_node' = taxon_id
            /\ result' = NoResult
       ELSE /\ pc' = "built"
            /\ path' = <<>>
            /\ current_node' = ""
            /\ result' = Finish(o, <<>>, taxon_id, rank)
    /\ UNCHANGED <<error, hierarchy, builder>>

\* the early return of the name-indexed methods
ReturnMiss(o, name, rank) ==
    /\ op' = o
    /\ q_name' = name
    /\ q_taxon_id' = ""
    /\ q_rank' = rank
    /\ pc' = "built"
    /\ path' = <<>>
    /\ current_node' = ""
    /\ result' = Returned(MissValue(o))
    /\ UNCHANGED <<error, hierarchy, builder>>

\* faulty variant: the identifier form is called with the name, not with its id
ByName_Untranslated(o, name, rank) ==
    IF name \notin DOMAIN name2taxon_id
    THEN ReturnMiss(o, name, rank)
    ELSE EnterWalk(o, name, name, rank)

\* a name-indexed method: membership test, then the identifier form
ByName(o, name, rank) ==
    IF name \notin DOMAIN name2taxon_id
    THEN ReturnMiss(o, name, rank)
    ELSE EnterWalk(o, name, name2taxon_id[name], rank)

get_taxon_id_lineage_with_taxon_id(taxon_id) ==
    /\ pc = "built"
    /\ EnterWalk("get_taxon_id_lineage_with_taxon_id", "", taxon_id, "")

get_taxon_id_lineage_with_name(name) ==
    /\ pc = "built"
    /\ ByName("get_taxon_id_lineage_with_name", name, "")

get_name_lineage_with_taxon_id(taxon_id) ==
    /\ pc = "built"
    /\ EnterWalk("get_name_lineage_with_taxon_id", "", taxon_id, "")

get_name_lineage_with_name(name) ==
    /\ pc = "built"
    /\ ByName("get_name_lineage_with_name", name, "")

get_rank_with_taxon_id(taxon_id, rank) ==
    /\ pc = "built"
    /\ EnterWalk("get_rank_with_taxon_id", "", taxon_id, rank)

get_name_at_rank(name, rank) ==
    /\ pc = "built"
    /\ ByName("get_name_at_rank", name, rank)

\* one iteration of the while loop of lines 74-76
WalkStep ==
    /\ pc = "walk"
    /\ Len(tree_succ[current_node]) > 0
    /\ Len(path) < MaxWalk
    /\ path' = Append(path, tree_succ[current_node][1])
    /\ current_node' = tree_succ[current_node][1]
    /\ UNCHANGED <<pc, error, hierarchy, builder, op, q_name, q_taxon_id,
                   q_rank, result>>

\* faulty variant: the name lookup stores '' for an id without canonical name
\* (self.taxon_id2name.setdefault(x, ''))
WalkReturn_SetDefault ==
    /\ pc = "walk"
    /\ Len(tree_succ[current_node]) = 0
    /\ result' = Finish(op, path, q_taxon_id, q_rank)
    /\ pc' = "built"
    /\ path' = <<>>
    /\ current_node' = ""
    /\ taxon_id2name' =
          IF op \in LineageOps THEN taxon_id2name
          ELSE [x \in DOMAIN taxon_id2name \cup {path[i] : i \in DOMAIN path}
                  |-> NameOf(x)]
    /\ UNCHANGED <<error, name2taxon_id, tree_succ, tree_rank, builder, op,
                   q_name, q_taxon_id, q_rank>>

\* the loop condition fails: return path, and the calling method finishes
WalkReturn ==
    /\ pc = "walk"
    /\ Len(tree_succ[current_node]) = 0
    /\ result' = Finish(op, path, q_taxon_id, q_rank)
    /\ pc' = "built"
    /\ path' = <<>>
    /\ current_node' = ""
    /\ UNCHANGED <<error, hierarchy, builder, op, q_name, q_taxon_id, q_rank>>

Next ==
    \/ ReadNamesRow
    \/ EndOfNames
    \/ ReadNodesRow
    \/ EndOfNodes
    \/ \E t \in TaxonIds : get_taxon_id_lineage_with_taxon_id(t)
    \/ \E n \in Names : get_taxon_id_lineage_with_name(n)
    \/ \E t \in TaxonIds : get_name_lineage_with_taxon_id(t)
    \/ \E n \in Names : get_name_lineage_with_name(n)
    \/ \E t \in TaxonIds, r \in Ranks : get_rank_with_taxon_id(t, r)
    \/ \E n \in Names, r \in Ranks : get_name_at_rank(n, r)
    \/ WalkStep
    \/ WalkReturn

Spec == Init /\ [][Next]_vars

(* ---------------------------- properties ------------------------------- *)
IdOps == {"get_taxon_id_lineage_with_taxon_id",
          "get_name_lineage_with_taxon_id", "get_rank_with_taxon_id"}

\* a query method has returned (or raised) and result holds its outcome
HasReturned == pc = "built" /\ op # "none"

\* rows of a dump that the parse loop took in without raising
AcceptedNames == {i \in DOMAIN names_dmp : Len(names_dmp[i]) >= 3}
AcceptedNodes == {i \in DOMAIN nodes_dmp : Len(nodes_dmp[i]) >= 5}

\* ids that occur as child_id of a nodes row
RecordedIds == {nodes_dmp[i][1] : i \in AcceptedNodes}

\* some nodes row gives b as the parent of a
RowParent(a, b) ==
    \E i \in AcceptedNodes : nodes_dmp[i][1] = a /\ nodes_dmp[i][3] = b

RankOrEmpty(x) == IF x \in DOMAIN tree_rank THEN tree_rank[x] ELSE ""

\* C1: for every TaxonId t that occurs as child_id of a nodes row, the walk
\* of ancestorIdPath(t) stays within the node count of the hierarchy and its
\* result is a non-empty path that starts with t, steps from each element to
\* its parent and ends at a root whose parent is itself.
C1_PathEndsAtRoot ==
    (op = "get_taxon_id_lineage_with_taxon_id" /\ q_taxon_id \in RecordedIds)
    => /\ pc = "walk" => Len(path) <= Cardinality(TreeNodes)
       /\ pc = "built" =>
            /\ result.status = "ok"
            /\ Len(result.value) > 0
            /\ result.value[1] = q_taxon_id
            /\ \A i \in 1..(Len(result.value) - 1) :
                   RowParent(result.value[i], result.value[i + 1])
            /\ RowParent(result.value[Len(result.value)],
                         result.value[Len(result.value)])

\* C2: a lineage walk never visits more nodes than the hierarchy holds.
C2_WalkBounded ==
    pc = "walk" => Len(path) <= Cardinality(TreeNodes)

\* C3: a query for an id that is no node of the hierarchy, or for a name
\* that NameIndex does not hold, returns the empty sequence, resp. the pair
\* (None, None) for the rank queries, and raises nothing.
C3_MissIsValue ==
    (/\ HasReturned
     /\ \/ op \in IdOps /\ q_taxon_id \notin TreeNodes
        \/ op \in NameOps /\ q_name \notin DOMAIN name2taxon_id)
    => /\ result.status = "ok"
       /\ result.value = IF op \in RankOps THEN <<None, None>> ELSE <<>>

C3_Witness ==
    /\ HasReturned
    /\ op = "get_name_at_rank"
    /\ q_name \notin DOMAIN name2taxon_id
    /\ name2taxon_id # EmptyDict
    /\ TreeNodes # {}
    /\ result.value = <<None, None>>

\* C4: for every id t with a nodes row of its own ancestorNamePath(t) returns, with
\* no error, one (canonical name or "", rank or "") pair per element of
\* ancestorIdPath(t), in the same order.
C4_NamePathAligned ==
    (/\ HasReturned
     /\ op = "get_name_lineage_with_taxon_id"
     /\ q_taxon_id \in TreeNodes \cap RecordedIds)
    => /\ result.status = "ok"
       /\ Len(result.value) = Len(Lineage(q_taxon_id))
       /\ \A i \in DOMAIN result.value :
              result.value[i] = <<NameOf(Lineage(q_taxon_id)[i]),
                                  RankOrEmpty(Lineage(q_taxon_id)[i])>>

\* C5: for every id t with a nodes row, findAncestorAtRank(t, rank) returns (id, canonical name or "") of the
\* first element of ancestorIdPath(t) whose rank equals rank, and
\* (None, None) exactly when no element of the path carries that rank.
C5_NearestRank ==
    (HasReturned /\ op = "get_rank_with_taxon_id"
                 /\ q_taxon_id \in TreeNodes \cap RecordedIds)
    => LET ids == Lineage(q_taxon_id)
           hits == {i \in DOMAIN ids : RankOrEmpty(ids[i]) = q_rank}
       IN  /\ result.status = "ok"
           /\ hits = {} => result.value = <<None, None>>
           /\ hits # {} =>
                \E k \in hits :
                    /\ \A j \in hits : k <= j
                    /\ result.value = <<ids[k], NameOf(ids[k])>>

\* the identifier-indexed method that a name-indexed method delegates to,
\* evaluated on the id that NameIndex gives
IdForm(o, taxon_id, rank) ==
    IF o = "get_taxon_id_lineage_with_name" THEN Returned(Lineage(taxon_id))
    ELSE IF o = "get_name_lineage_with_name"
         THEN NameLineage(Lineage(taxon_id))
         ELSE RankWith(Lineage(taxon_id), taxon_id, rank)

\* C6: whenever its name resolves, a name-indexed query gives what the
\* identifier-indexed query gives for NameIndex[name].
C6_NameFormAgrees ==
    (HasReturned /\ op \in NameOps /\ q_name \in DOMAIN name2taxon_id)
    => result = IdForm(op, name2taxon_id[q_name], q_rank)

C6_Witness ==
    /\ HasReturned
    /\ op = "get_name_at_rank"
    /\ q_name \in DOMAIN name2taxon_id
    /\ name2taxon_id[q_name] \in TreeNodes
    /\ result.status = "ok"
    /\ result.value # <<None, None>>
    /\ result.value[1] # name2taxon_id[q_name]

\* C7: NameIndex maps each display name to the taxon_id of the last names
\* row that carries it, whatever the row's class; CanonicalNameIndex maps an
\* id to a name only if a row of that id with class "scientific name"
\* carries that name.
C7_LastWriteWins ==
    /\ DOMAIN name2taxon_id = {names_dmp[i][3] : i \in AcceptedNames}
    /\ \A n \in DOMAIN name2taxon_id :
          \E i \in AcceptedNames :
              /\ names_dmp[i][3] = n
              /\ names_dmp[i][1] = name2taxon_id[n]
              /\ \A j \in AcceptedNames : names_dmp[j][3] = n => j <= i
    /\ \A t \in DOMAIN taxon_id2name :
          \E i \in AcceptedNames :
              /\ names_dmp[i][1] = t
              /\ ColMinus2(names_dmp[i]) = ScientificName
              /\ names_dmp[i][3] = taxon_id2name[t]

C7_Witness ==
    /\ pc = "built"
    /\ Len(names_dmp) = 2
    /\ AcceptedNames = {1, 2}
    /\ names_dmp[1][3] = names_dmp[2][3]
    /\ names_dmp[1][1] # names_dmp[2][1]
    /\ ColMinus2(names_dmp[1]) = ScientificName
    /\ ColMinus2(names_dmp[2]) # ScientificName

\* C8: no step of a query changes the parent edges, the ranks, NameIndex or
\* CanonicalNameIndex.
C8_QueriesReadOnly ==
    [][(pc \in {"built", "walk"}) => (hierarchy' = hierarchy)]_vars

C8_Witness ==
    /\ HasReturned
    /\ op = "get_name_lineage_with_taxon_id"
    /\ result.status = "ok"
    /\ Len(result.value) = 2
    /\ result.value[2][1] = ""

\* the shape of a line of each dump
WellFormedNames(cols) ==
    Len(cols) = Len(NamesRow("", "", "")) /\ cols[1] # ""
WellFormedNodes(cols) ==
    Len(cols) = Len(NodesRow("", "", "")) /\ cols[1] # ""

\* C9: once a row without the expected field count, or with an empty id,
\* has been read, build has failed.
C9_MalformedRejected ==
    (\/ \E i \in DOMAIN names_dmp : ~WellFormedNames(names_dmp[i])
     \/ \E i \in DOMAIN nodes_dmp : ~WellFormedNodes(nodes_dmp[i]))
    => pc = "failed"

\* C10: every node of the built hierarchy has at most one outgoing parent
\* edge, and none to itself.
C10_SingleParent ==
    pc \in {"built", "walk"} =>
        \A n \in TreeNodes :
            /\ Len(tree_succ[n]) <= 1
            /\ \A i \in DOMAIN tree_succ[n] : tree_succ[n][i] # n
====
